---- MODULE Spec2Model ----
(***************************************************************************)
(* A model of the AXIOM voice agent backend (src/backend):                 *)
(*   - VadHandler              (vad_handler.py)                            *)
(*   - ConversationManager     (conversation_manager.py)                   *)
(*   - websocket_endpoint and process_speech (main_agent_web.py)           *)
(* The agent object and all of its handlers are process-global singletons  *)
(* (main_agent_web.py:134); the locals of websocket_endpoint are per       *)
(* connection.                                                             *)
(***************************************************************************)
EXTENDS Naturals, Sequences, FiniteSets, TLC

VARIABLES
    \* ---- agent.vad : VadHandler (one object for the whole process)
    vad,            \* [initialized, is_speech, speech_frames, silence_frames, hc]
    \* ---- observation of the calls of process_chunk since the last reset()
    vret,           \* is_speech returned by the last call: "none", "T", "F"
    vprev,          \* is_speech returned by the call before it
    hiRun,          \* length of the trailing run of frames with probability >= threshold
    loRun,          \* length of the trailing run of frames with probability <  threshold
    \* ---- orchestrator.conversation : ConversationManager (one object for the process)
    history,        \* ConversationHistory.history, a deque(maxlen = max_history)
    session_id,     \* ConversationHistory.session_id
    log,            \* rows of the table interactions, in rowid order
    sessions,       \* rows of the table sessions
    clock,          \* int(time.time())
    calls,          \* number of add_interaction calls made so far
    base,           \* value of calls when the window was last cleared
    thr,            \* position of each thread that calls into the manager
    \* ---- one websocket_endpoint invocation per connection slot
    conn,           \* transport: "none", "open", "gone" (the client has left)
    pc,             \* control loop: "off", "recv" (await receive), "await" (await process_speech)
    inbox,          \* messages sent by the client and not yet received
    audio_buffer,   \* local audio_buffer
    is_speaking,    \* local is_speaking
    processing_lock,\* local processing_lock
    ev,             \* the last event sent to the client
    \* ---- process_speech
    ppc,            \* position of the pipeline: "none", "start", "stt", ...
    run,            \* what the pipeline run has decided and recorded so far
    runs,           \* process_speech executions in progress
    utter,          \* process_speech executions started
    fedLate,        \* a frame that arrived while the lock was held was fed to the VAD
    \* ---- agent.orchestrator.state : ConversationState, agent.tts
    queue,          \* ConversationState.queue, the queued sub-queries
    waiting_for_next, \* ConversationState.waiting_for_next
    hcall,          \* one call of ConversationOrchestrator.handle: arguments and result
    tts,            \* agent.tts : [initialized], tts.tts is None iff not initialized
    \* ---- agent.llm : AxiomBrain (one object for the whole process)
    model_name,     \* AxiomBrain.model_name
    bcall,          \* the last call of generate_response: outcomes, invocations, result
    bcalls,         \* generate_response calls made so far
    subs,           \* times model_name has been replaced by the fallback model
    \* ---- SequentialTTSHandler: its queue, its flag and its worker thread
    speech_queue,   \* SequentialTTSHandler.queue, utterances numbered in speak() order
    is_playing,     \* SequentialTTSHandler.is_playing
    wpc,            \* position of _process_queue: "get", "got", "gen", "wait", "clear", "done"
    wtext,          \* the utterance the worker holds, 0 if none
    spoken,         \* utterances enqueued by speak() so far
    play_started,   \* the utterances whose playback has started, in that order
    sounding,       \* the utterances playing on the audio device
    play_ended,     \* the utterances whose playback is over, or that were discarded
    \* ---- agent.model_3d_mapper : Model3DMapper (one object for the whole process)
    current_topic,  \* Model3DMapper.current_topic, "none" for None
    mcall,          \* the last call of process_text: text, topic before, value returned
    last_event,     \* the topic of the last load event returned, "none" before the first
    \* ---- observation of ConversationOrchestrator.query_with_context
    qcall,          \* the last call: arguments, the calls it made, what it recorded
    \* ---- one process_speech coroutine, statement by statement
    pstep,          \* the step it is about to execute, "none" outside a run, "ret" at its end
    ptrace,         \* the steps the current run has executed, in order
    pinfo,          \* what the run has decided: use_template, response, producers
    pruns           \* runs started

convVars  == <<history, session_id, log, sessions, clock, calls, base>>
sessVars  == <<conn, pc, inbox, audio_buffer, is_speaking, processing_lock, ev,
               ppc, run, runs, utter, fedLate>>
vars      == <<vad, vret, vprev, hiRun, loRun,
               history, session_id, log, sessions, clock, calls, base, thr,
               conn, pc, inbox, audio_buffer, is_speaking, processing_lock, ev,
               ppc, run, runs, utter, fedLate,
               queue, waiting_for_next, hcall, tts,
               model_name, bcall, bcalls, subs,
               speech_queue, is_playing, wpc, wtext, spoken, play_started, sounding, play_ended,
               current_topic, mcall, last_event, qcall,
               pstep, ptrace, pinfo, pruns>>
brainVars == <<model_name, bcall, bcalls, subs>>
speechVars == <<speech_queue, is_playing, wpc, wtext, spoken, play_started, sounding, play_ended>>
mapperVars == <<current_topic, mcall, last_event>>
stepVars  == <<pstep, ptrace, pinfo, pruns>>
sideVars  == <<speechVars, mapperVars, qcall, stepVars>>
agentVars == <<queue, waiting_for_next, hcall, tts, brainVars, sideVars>>

Min(a, b) == IF a < b THEN a ELSE b

(***************************************************************************)
(* VadHandler                                                              *)
(***************************************************************************)
min_speech_frames  == 3
min_silence_frames == 10

\* What the ONNX inference of one frame can do: a probability at or above
\* the threshold, one below it, or session.run raising.
VadOutcomes == {"hi", "lo", "err"}

\* VadHandler.reset().  The recurrent tensors h, c are re-zeroed only when the
\* model is loaded; they are modelled by hc: "zeros" or "carried".
VadAfterReset(v) ==
    [v EXCEPT !.is_speech = FALSE, !.speech_frames = 0, !.silence_frames = 0,
              !.hc = IF v.initialized THEN "zeros" ELSE v.hc]

\* The hysteresis update of process_chunk for a successful inference.  The
\* counters of the code grow without bound; only their comparison with
\* min_speech_frames / min_silence_frames is ever read, so they are kept
\* saturated at those values.
VadHysteresis(v, o) ==
    IF o = "hi"
    THEN LET sf == Min(v.speech_frames + 1, min_speech_frames)
         IN  [v EXCEPT !.speech_frames = sf, !.silence_frames = 0,
                       !.is_speech = IF sf >= min_speech_frames THEN TRUE ELSE @,
                       !.hc = "carried"]
    ELSE LET nf == Min(v.silence_frames + 1, min_silence_frames)
         IN  [v EXCEPT !.silence_frames = nf, !.speech_frames = 0,
                       !.is_speech = IF nf >= min_silence_frames THEN FALSE ELSE @,
                       !.hc = "carried"]

\* process_chunk whose except branch also restarts the hysteresis counters.
process_chunk_err_resets(v, o) ==
    IF ~v.initialized
    THEN [vad |-> v, prob |-> "one", is_speech |-> TRUE]
    ELSE IF o = "err"
    THEN [vad |-> [v EXCEPT !.speech_frames = 0, !.silence_frames = 0],
          prob |-> "zero", is_speech |-> FALSE]
    ELSE LET w == VadHysteresis(v, o)
         IN  [vad |-> w, prob |-> o, is_speech |-> w.is_speech]

\* VadHandler.process_chunk: the new handler state, the returned probability
\* ("one" = 1.0, "zero" = 0.0, "hi", "lo") and the returned is_speech.
process_chunk(v, o) ==
    IF ~v.initialized
    THEN [vad |-> v, prob |-> "one", is_speech |-> TRUE]
    ELSE IF o = "err"
    THEN [vad |-> v, prob |-> "zero", is_speech |-> FALSE]
    ELSE LET w == VadHysteresis(v, o)
         IN  [vad |-> w, prob |-> o, is_speech |-> w.is_speech]

VadInit ==
    /\ vad \in {VadAfterReset([initialized |-> i, is_speech |-> FALSE,
                               speech_frames |-> 0, silence_frames |-> 0,
                               hc |-> IF i THEN "zeros" ELSE "none"]) : i \in BOOLEAN}
    /\ vret = "none" /\ vprev = "none" /\ hiRun = 0 /\ loRun = 0

AtOrAbove(prob) == prob \in {"hi", "one"}

\* One frame fed to process_chunk, the caller observing what is returned.
\* A frame whose inference raised has no probability of its own: it neither
\* extends nor breaks a run of frames at or above the threshold; process_chunk
\* reports 0.0 for it, so it counts in a run of frames below the threshold.
VadFeed ==
    \E o \in VadOutcomes :
        LET r == process_chunk(vad, o)
        IN  /\ vad' = r.vad
            /\ vprev' = vret
            /\ vret' = IF r.is_speech THEN "T" ELSE "F"
            /\ hiRun' = IF AtOrAbove(r.prob) THEN Min(hiRun + 1, min_speech_frames)
                        ELSE IF r.prob = "zero" THEN hiRun ELSE 0
            /\ loRun' = IF AtOrAbove(r.prob) THEN 0 ELSE Min(loRun + 1, min_silence_frames)
            /\ UNCHANGED <<convVars, thr, sessVars, agentVars>>

\* reset() starts a new frame sequence.
VadReset ==
    /\ vad' = VadAfterReset(vad)
    /\ vret' = "none" /\ vprev' = "none" /\ hiRun' = 0 /\ loRun' = 0
    /\ UNCHANGED <<convVars, thr, sessVars, agentVars>>


(***************************************************************************)
(* ConversationManager = ConversationHistory + InteractionDatabase         *)
(***************************************************************************)
max_history == 5

\* Bounds of the model.
MaxCalls == 6       \* add_interaction calls explored
MaxClock == 1       \* seconds the wall clock advances
MaxCount == 6       \* largest count asked of the window accessors

\* Threads that call into the manager (asyncio.to_thread workers).
Threads == {"t1", "t2"}

\* An interaction is identified by the number of the add_interaction call
\* that created it (1 = the first call).

\* deque(maxlen = max_history).append: a full deque drops its oldest item.
DequeAppend(h, x) ==
    IF Len(h) >= max_history THEN Append(Tail(h), x) ELSE Append(h, x)

\* ConversationHistory._generate_session_id: f"session_{int(time.time())}".
generate_session_id(now) == now

\* InteractionDatabase.save_interaction, when the INSERT commits.
save_interaction(l, sid, x) == Append(l, [id |-> x, sid |-> sid])

\* InteractionDatabase.update_session: INSERT OR REPLACE INTO sessions.  The
\* row's interaction_count and avg_confidence are read by no operation and
\* are left out; the table interactions is only SELECTed from.
update_session(tbl, l, sid) ==
    {r \in tbl : r.sid # sid}
        \cup {[sid |-> sid]}

ConvInit ==
    /\ history = << >>
    /\ clock = 0
    /\ session_id = generate_session_id(0)
    /\ log = << >>
    /\ sessions = {}
    /\ calls = 0
    /\ base = 0
    /\ thr = [t \in Threads |-> [pc |-> "idle", id |-> 0]]

\* ConversationManager.add_interaction, first half (line 425):
\* self.history.add_interaction(...) appends to the window.
CM_AddWindow(t) ==
    /\ thr[t].pc = "idle"
    /\ calls < MaxCalls
    /\ calls' = calls + 1
    /\ history' = DequeAppend(history, calls + 1)
    /\ thr' = [thr EXCEPT ![t] = [pc |-> "save", id |-> calls + 1]]
    /\ UNCHANGED <<session_id, log, sessions, clock, base>>
    /\ UNCHANGED <<vad, vret, vprev, hiRun, loRun, sessVars, agentVars>>

\* ConversationManager.add_interaction, second half (lines 428-435):
\* self.database.save_interaction(self.history.session_id, ...).  sqlite3 can
\* raise (no such table with db_path ":memory:", database is locked, disk
\* full): the exception leaves add_interaction with the window already changed.
CM_AddSave(t) ==
    /\ thr[t].pc = "save"
    /\ \E ok \in BOOLEAN :
          log' = IF ok THEN save_interaction(log, session_id, thr[t].id) ELSE log
    /\ thr' = [thr EXCEPT ![t] = [pc |-> "idle", id |-> 0]]
    /\ UNCHANGED <<history, session_id, sessions, clock, calls, base>>
    /\ UNCHANGED <<vad, vret, vprev, hiRun, loRun, sessVars, agentVars>>

\* list(self.history)[-count:] (line 81).  Python reads the start index
\* -count from the end of the list when it is negative and clamps it at the
\* beginning of the list; -0 is 0, the beginning of the list.
SliceFromMinus(h, count) ==
    LET start == IF count = 0 THEN 0
                 ELSE IF count > Len(h) THEN 0 ELSE Len(h) - count
    IN  SubSeq(h, start + 1, Len(h))

\* ConversationHistory.get_recent_interactions(count) (lines 69-81).
get_recent_interactions(h, count) == SliceFromMinus(h, count)

\* ConversationHistory.get_context_string(count) (lines 83-103): the empty
\* string for an empty window, otherwise the header line followed by the
\* recent interactions numbered from 1.
get_context_string(h, count) ==
    IF h = << >>
    THEN [header |-> FALSE, lines |-> << >>]
    ELSE LET recent == get_recent_interactions(h, count)
         IN  [header |-> TRUE,
              lines  |-> [i \in 1..Len(recent) |-> [n |-> i, id |-> recent[i]]]]

\* ConversationHistory.clear().
CM_Clear ==
    /\ history' = << >>
    /\ session_id' = generate_session_id(clock)
    /\ base' = calls
    /\ UNCHANGED <<log, sessions, clock, calls, thr>>
    /\ UNCHANGED <<vad, vret, vprev, hiRun, loRun, sessVars, agentVars>>

\* ConversationManager.end_session(): update_session, then history.clear().
CM_EndSession ==
    /\ sessions' = update_session(sessions, log, session_id)
    /\ history' = << >>
    /\ session_id' = generate_session_id(clock)
    /\ base' = calls
    /\ UNCHANGED <<log, clock, calls, thr>>
    /\ UNCHANGED <<vad, vret, vprev, hiRun, loRun, sessVars, agentVars>>

\* get_training_data, get_statistics, export_to_json: SELECT only.
CM_Export ==
    /\ UNCHANGED convVars /\ UNCHANGED thr
    /\ UNCHANGED <<vad, vret, vprev, hiRun, loRun, sessVars, agentVars>>

\* The wall clock passes a second boundary.
Tick ==
    /\ clock < MaxClock
    /\ clock' = clock + 1
    /\ UNCHANGED <<history, session_id, log, sessions, calls, base, thr>>
    /\ UNCHANGED <<vad, vret, vprev, hiRun, loRun, sessVars, agentVars>>

(***************************************************************************)
(* websocket_endpoint and process_speech (main_agent_web.py)               *)
(***************************************************************************)
\* Connection slots: each is one invocation of websocket_endpoint at a time.
Sessions == {"s1", "s2"}

\* Bounds of the model.
MaxInbox == 1       \* messages in flight per connection
MaxBuf   == 1       \* frames kept in audio_buffer (longer buffers behave alike)
MaxUtter == 2       \* process_speech executions explored, all sessions together

Intents == {"greeting", "acknowledgment", "equipment_query", "project_idea"}

\* What one execution of process_speech has done so far: how it answered, how
\* often it appended to the window and to the log, and the interaction it made.
\* How the last execution ended is remembered until the next one starts.
NoRun == [resp |-> "none", nwin |-> 0, nlog |-> 0, id |-> 0,
          stt |-> "none", ack |-> FALSE]

Frame(late) == [k |-> "bytes", late |-> late]
TextMsg     == [k |-> "text", late |-> FALSE]

SessInit ==
    /\ conn = [s \in Sessions |-> "none"]
    /\ pc = [s \in Sessions |-> "off"]
    /\ inbox = [s \in Sessions |-> << >>]
    /\ audio_buffer = [s \in Sessions |-> << >>]
    /\ is_speaking = [s \in Sessions |-> FALSE]
    /\ processing_lock = [s \in Sessions |-> FALSE]
    /\ ev = [s \in Sessions |-> "none"]
    /\ ppc = [s \in Sessions |-> "none"]
    /\ run = [s \in Sessions |-> NoRun]
    /\ runs = [s \in Sessions |-> 0]
    /\ utter = 0
    /\ fedLate = [s \in Sessions |-> FALSE]

vadAll  == <<vad, vret, vprev, hiRun, loRun>>
convAll == <<history, session_id, log, sessions, clock, calls, base, thr>>

\* audio_buffer.append(data); a buffer of MaxBuf frames stands for every
\* longer one.
BufAppend(b, x) == IF Len(b) >= MaxBuf THEN b ELSE Append(b, x)

\* ---- the client ----------------------------------------------------------

\* A client connects: websocket.accept(), the session locals, agent.vad.reset()
\* (lines 138-148).
ClientConnect(s) ==
    /\ conn[s] = "none" /\ pc[s] = "off"
    /\ conn' = [conn EXCEPT ![s] = "open"]
    /\ pc' = [pc EXCEPT ![s] = "recv"]
    /\ vad' = VadAfterReset(vad)
    /\ UNCHANGED <<inbox, audio_buffer, is_speaking, processing_lock, ev,
                   ppc, run, runs, utter, fedLate>>
    /\ UNCHANGED <<vret, vprev, hiRun, loRun>> /\ UNCHANGED agentVars
    /\ UNCHANGED convAll

\* The client sends one binary audio frame; the frame remembers whether the
\* server held the processing lock when it arrived.
ClientSendFrame(s) ==
    /\ conn[s] = "open"
    /\ Len(inbox[s]) < MaxInbox
    /\ inbox' = [inbox EXCEPT ![s] = Append(@, Frame(processing_lock[s]))]
    /\ UNCHANGED <<conn, pc, audio_buffer, is_speaking, processing_lock, ev,
                   ppc, run, runs, utter, fedLate>>
    /\ UNCHANGED vadAll /\ UNCHANGED agentVars /\ UNCHANGED convAll

\* The client sends a JSON control message; what it says is looked at when it
\* is received.
ClientSendText(s) ==
    /\ conn[s] = "open"
    /\ Len(inbox[s]) < MaxInbox
    /\ inbox' = [inbox EXCEPT ![s] = Append(@, TextMsg)]
    /\ UNCHANGED <<conn, pc, audio_buffer, is_speaking, processing_lock, ev,
                   ppc, run, runs, utter, fedLate>>
    /\ UNCHANGED vadAll /\ UNCHANGED agentVars /\ UNCHANGED convAll

\* The client goes away; what it had in flight is lost with the transport.
ClientDisconnect(s) ==
    /\ conn[s] = "open"
    /\ conn' = [conn EXCEPT ![s] = "gone"]
    /\ inbox' = [inbox EXCEPT ![s] = << >>]
    /\ UNCHANGED <<pc, audio_buffer, is_speaking, processing_lock, ev,
                   ppc, run, runs, utter, fedLate>>
    /\ UNCHANGED vadAll /\ UNCHANGED agentVars /\ UNCHANGED convAll

\* ---- the control loop of websocket_endpoint ------------------------------

\* websocket_endpoint returns (lines 209-213): its locals are gone.
EndHandler(s) ==
    /\ conn' = [conn EXCEPT ![s] = "none"]
    /\ pc' = [pc EXCEPT ![s] = "off"]
    /\ inbox' = [inbox EXCEPT ![s] = << >>]
    /\ audio_buffer' = [audio_buffer EXCEPT ![s] = << >>]
    /\ is_speaking' = [is_speaking EXCEPT ![s] = FALSE]
    /\ processing_lock' = [processing_lock EXCEPT ![s] = FALSE]
    /\ ev' = [ev EXCEPT ![s] = "none"]
    /\ fedLate' = [fedLate EXCEPT ![s] = FALSE]
    /\ run' = [run EXCEPT ![s] = NoRun]

\* Lines 184-192 with process_speech started as a detached task instead of
\* being awaited: the loop unlocks and goes on at once.
SpeechEndDetached(s, buf) ==
    /\ is_speaking' = [is_speaking EXCEPT ![s] = FALSE]
    /\ processing_lock' = [processing_lock EXCEPT ![s] = FALSE]
    /\ ev' = [ev EXCEPT ![s] = "ready_to_listen"]
    /\ audio_buffer' = [audio_buffer EXCEPT ![s] = << >>]
    /\ ppc' = [ppc EXCEPT ![s] = "start"]
    /\ run' = [run EXCEPT ![s] = NoRun]
    /\ runs' = [runs EXCEPT ![s] = @ + 1]
    /\ utter' = utter + 1
    /\ UNCHANGED pc

\* Speech ended (lines 184-192): lock, emit speech_end and, if anything was
\* accumulated, enter process_speech and wait for it.
SpeechEnd(s, buf) ==
    /\ is_speaking' = [is_speaking EXCEPT ![s] = FALSE]
    /\ processing_lock' = [processing_lock EXCEPT ![s] = TRUE]
    /\ ev' = [ev EXCEPT ![s] = "speech_end"]
    /\ audio_buffer' = [audio_buffer EXCEPT ![s] = buf]
    /\ IF buf # << >>
       THEN /\ pc' = [pc EXCEPT ![s] = "await"]
            /\ ppc' = [ppc EXCEPT ![s] = "start"]
            /\ run' = [run EXCEPT ![s] = NoRun]
            /\ runs' = [runs EXCEPT ![s] = @ + 1]
            /\ utter' = utter + 1
       ELSE UNCHANGED <<pc, ppc, run, runs, utter>>

\* process_audio_chunk (lines 114-132): np.frombuffer reads the frame as
\* 16-bit samples and raises on a frame that is not a whole number of them;
\* a whole frame is padded or cut to 512 samples.
process_audio_chunk(whole) == IF whole THEN "chunk" ELSE "raise"

\* One binary message received (lines 154-198).  An exception in the loop
\* body reaches the handler of lines 211-213, which closes the connection.
RecvBytes(s) ==
    /\ pc[s] = "recv"
    /\ inbox[s] # << >> /\ Head(inbox[s]).k = "bytes"
    /\ UNCHANGED <<vret, vprev, hiRun, loRun>> /\ UNCHANGED agentVars
    /\ UNCHANGED convAll
    /\ IF processing_lock[s]
       THEN \* lines 160-162: the frame is dropped
            /\ inbox' = [inbox EXCEPT ![s] = Tail(@)]
            /\ UNCHANGED <<conn, vad, pc, audio_buffer, is_speaking, processing_lock,
                           ev, ppc, run, runs, utter, fedLate>>
       ELSE \E o \in VadOutcomes, whole \in BOOLEAN :
              LET m         == Head(inbox[s])
                  r         == process_chunk(vad, o)
                  started   == r.is_speech /\ ~is_speaking[s]
                  speaking1 == is_speaking[s] \/ started
                  buf0      == IF started THEN << >> ELSE audio_buffer[s]
                  buf1      == IF speaking1 THEN BufAppend(buf0, "frame") ELSE buf0
                  ended     == ~r.is_speech /\ speaking1
              IN  IF process_audio_chunk(whole) = "raise"
                  THEN /\ EndHandler(s)
                       /\ UNCHANGED <<vad, ppc, runs, utter>>
                  ELSE /\ vad' = r.vad
                       /\ inbox' = [inbox EXCEPT ![s] = Tail(@)]
                       /\ fedLate' = [fedLate EXCEPT ![s] = @ \/ m.late]
                       /\ UNCHANGED conn
                       /\ IF ended
                          THEN /\ utter < MaxUtter
                               /\ SpeechEnd(s, buf1)
                          ELSE /\ is_speaking' = [is_speaking EXCEPT ![s] = speaking1]
                               /\ audio_buffer' = [audio_buffer EXCEPT ![s] = buf1]
                               /\ ev' = [ev EXCEPT ![s] = IF started THEN "speech_start" ELSE @]
                               /\ UNCHANGED <<pc, processing_lock, ppc, run, runs, utter>>

\* One text message received (lines 200-207).
RecvText(s) ==
    /\ pc[s] = "recv"
    /\ inbox[s] # << >> /\ Head(inbox[s]).k = "text"
    /\ \E event \in {"client_ready", "other", "malformed"} :
          IF event = "malformed"
          THEN \* json.loads (line 203) raises; lines 211-213 close the connection
               EndHandler(s)
          ELSE /\ inbox' = [inbox EXCEPT ![s] = Tail(@)]
               /\ ev' = [ev EXCEPT ![s] = IF event = "client_ready" THEN "idle" ELSE @]
               /\ UNCHANGED <<conn, pc, audio_buffer, is_speaking, processing_lock,
                              run, fedLate>>
    /\ UNCHANGED <<ppc, runs, utter>>
    /\ UNCHANGED vadAll /\ UNCHANGED agentVars /\ UNCHANGED convAll

\* websocket.receive() finds the client gone: the loop is left (lines 209-213).
RecvDisconnect(s) ==
    /\ pc[s] = "recv" /\ conn[s] = "gone"
    /\ EndHandler(s)
    /\ UNCHANGED <<ppc, runs, utter>>
    /\ UNCHANGED vadAll /\ UNCHANGED agentVars /\ UNCHANGED convAll

\* ---- process_speech -------------------------------------------------------

\* TemplateResponses.should_use_template: confHigh says the confidence exceeds
\* the intent's own threshold, robust that a robust template matches.
should_use_template(intent, confHigh, robust) ==
    CASE intent = "greeting"        -> confHigh
      [] intent = "acknowledgment"  -> confHigh
      [] intent = "equipment_query" -> confHigh /\ robust
      [] OTHER                      -> FALSE

\* TemplateResponses.get_template_response: "text" or None.
get_template_response(intent, found) ==
    CASE intent = "greeting"        -> "text"
      [] intent = "acknowledgment"  -> "text"
      [] intent = "equipment_query" -> IF found THEN "text" ELSE "none"
      [] OTHER                      -> "none"

\* The except branch without the report to the client.
FailSilent(s) ==
    /\ ppc' = [ppc EXCEPT ![s] = "ret"]
    /\ run' = [run EXCEPT ![s].resp = "error"]
    /\ UNCHANGED ev

\* The except branch of process_speech (lines 408-413): report the error to
\* the client if it is still there, and return.
Fail(s) ==
    /\ ppc' = [ppc EXCEPT ![s] = "ret"]
    /\ run' = [run EXCEPT ![s].resp = "error"]
    /\ ev' = [ev EXCEPT ![s] = IF conn[s] = "open" THEN "idle_error" ELSE @]

\* Send the "thinking" state (line 232).
P_Start(s) ==
    /\ ppc[s] = "start"
    /\ IF conn[s] = "open"
       THEN /\ ev' = [ev EXCEPT ![s] = "thinking"]
            /\ ppc' = [ppc EXCEPT ![s] = "stt"]
            /\ UNCHANGED run
       ELSE Fail(s)
    /\ UNCHANGED <<conn, pc, inbox, audio_buffer, is_speaking, processing_lock,
                   runs, utter, fedLate>>
    /\ UNCHANGED vadAll /\ UNCHANGED agentVars /\ UNCHANGED convAll

\* The transcripts that end the run before intent classification: the empty
\* transcript (line 254), a single filler word (line 260) and a transcript
\* judged a hallucination (line 266).
Transcripts == {"ok", "empty", "filler", "hallucination"}
EarlyExitKeepsFiller(t) == t \in {"empty", "hallucination"}
EarlyExit(t) == t \in {"empty", "filler", "hallucination"}

\* Transcription and the three early exits (lines 236-270).  run.stt keeps
\* the kind of transcript the run produced.
P_Stt(s) ==
    /\ ppc[s] = "stt"
    /\ \E t \in Transcripts \cup {"raise"} :
         IF t = "raise"
         THEN Fail(s)
         ELSE IF ~EarlyExit(t)
         THEN /\ ppc' = [ppc EXCEPT ![s] = "intent"]
              /\ run' = [run EXCEPT ![s].stt = t]
              /\ UNCHANGED ev
         ELSE IF conn[s] # "open"
         THEN \* the send of the idle state raises
              /\ ppc' = [ppc EXCEPT ![s] = "ret"]
              /\ run' = [run EXCEPT ![s].resp = "error", ![s].stt = t]
              /\ UNCHANGED ev
         ELSE /\ ev' = [ev EXCEPT ![s] = "idle"]
              /\ ppc' = [ppc EXCEPT ![s] = "ret"]
              /\ run' = [run EXCEPT ![s].resp = "skipped", ![s].stt = t]
    /\ UNCHANGED <<conn, pc, inbox, audio_buffer, is_speaking, processing_lock,
                   runs, utter, fedLate>>
    /\ UNCHANGED vadAll /\ UNCHANGED agentVars /\ UNCHANGED convAll

\* Intent, corrections, the card and 3D side channels and the template
\* decision (lines 272-345).
ResponsePathCardOnly(card, tmpl) ==
    IF card THEN "ret" ELSE IF tmpl = "text" THEN "tts" ELSE "llm"

\* Where the run goes after the side channels: synthesis of the template
\* text if there is one, generation otherwise (lines 337-351).  The keyword
\* match is not consulted.
ResponsePath(card, tmpl) == IF tmpl = "text" THEN "tts" ELSE "llm"

P_Intent(s) ==
    /\ ppc[s] = "intent"
    /\ \E i \in Intents, confHigh, robust, found, card, model3d, raise \in BOOLEAN :
         LET side == card \/ model3d
             tmpl == IF should_use_template(i, confHigh, robust)
                     THEN get_template_response(i, found) ELSE "none"
         IN  IF raise \/ (side /\ conn[s] # "open")
             THEN Fail(s)
             ELSE /\ ev' = [ev EXCEPT ![s] = IF model3d THEN "load_3d_model"
                                             ELSE IF card THEN "trigger_card" ELSE @]
                  /\ run' = [run EXCEPT ![s].resp = IF tmpl = "text" THEN "template" ELSE @,
                                         ![s].ack = (i = "acknowledgment")]
                  /\ ppc' = [ppc EXCEPT ![s] = ResponsePath(card, tmpl)]
    /\ UNCHANGED <<conn, pc, inbox, audio_buffer, is_speaking, processing_lock,
                   runs, utter, fedLate>>
    /\ UNCHANGED vadAll /\ UNCHANGED agentVars /\ UNCHANGED convAll

\* ---------------------------------------------------------------------
\* AxiomBrain (axiom_brain.py)
MaxBrainCalls == 6

Preferred == "drobotics_test"
Fallback  == "drobo_lab_v2"

\* What one ollama.chat call can do: return a well-formed response, return
\* one without message/content, raise with a message that contains
\* "not found", or raise anything else.
BackendOutcomes == {"ok", "badshape", "notfound", "error"}

\* The value generate_response returns for the outcome of its last
\* ollama.chat call: the stripped content, or the fixed phrase of the outer
\* except branch (lines 93-97).
ResultOf(o) == IF o = "ok" THEN "text" ELSE "phrase"

\* generate_response that lets a failure of its last attempt out.
generate_response_raises(model, o1, o2) ==
    IF o1 = "notfound" /\ model # Fallback
    THEN [model |-> Fallback, n |-> 2, res |-> IF o2 = "ok" THEN "text" ELSE "raise"]
    ELSE [model |-> model, n |-> 1, res |-> IF o1 = "ok" THEN "text" ELSE "raise"]

\* generate_response that retries after any failure of the first attempt.
generate_response_retries_any(model, o1, o2) ==
    IF o1 \in {"notfound", "error"}
    THEN [model |-> Fallback, n |-> 2, res |-> ResultOf(o2)]
    ELSE [model |-> model, n |-> 1, res |-> ResultOf(o1)]

\* AxiomBrain.generate_response (lines 49-97) for a first attempt with
\* outcome o1 and, if it is made, a retry with outcome o2: the model name
\* afterwards, the number of ollama.chat calls, and the value returned.
generate_response(model, o1, o2) ==
    IF o1 = "notfound" /\ model # Fallback
    THEN [model |-> Fallback, n |-> 2, res |-> ResultOf(o2)]
    ELSE [model |-> model, n |-> 1, res |-> ResultOf(o1)]

NoBrainCall == [o1 |-> "none", o2 |-> "none", n |-> 0, res |-> "none", before |-> "none"]

\* query_llm -> orchestrator.query_with_context in a worker thread, up to the
\* window append of ConversationManager.add_interaction (lines 97-112;
\* conversation_orchestrator.py 114-184; conversation_manager.py 412-426).
\* The answer recorded is whatever generate_response returned: run.resp is
\* "phrase" while the answer in hand is the fixed phrase of a failed backend.
P_Llm(s) ==
    /\ ppc[s] = "llm"
    /\ \/ \E o1 \in BackendOutcomes :
           \E o2 \in IF o1 = "notfound" /\ model_name # Fallback
                      THEN BackendOutcomes ELSE {"none"} :
              LET r == generate_response(model_name, o1, o2)
              IN  /\ model_name' = r.model
                  /\ calls' = calls + 1
                  /\ history' = DequeAppend(history, calls + 1)
                  /\ run' = [run EXCEPT ![s].id = calls + 1, ![s].nwin = @ + 1,
                                         ![s].resp = IF r.res = "phrase" THEN "phrase" ELSE @]
                  /\ ppc' = [ppc EXCEPT ![s] = "q_save"]
       \/ \* an exception before anything is recorded: "System error."
          /\ run' = [run EXCEPT ![s].resp = "system_error"]
          /\ ppc' = [ppc EXCEPT ![s] = "tts"]
          /\ UNCHANGED <<calls, history, model_name>>
    /\ UNCHANGED <<conn, pc, inbox, audio_buffer, is_speaking, processing_lock,
                   ev, runs, utter, fedLate>>
    /\ UNCHANGED vadAll
    /\ UNCHANGED <<queue, waiting_for_next, hcall, tts, bcall, bcalls, subs>>
    /\ UNCHANGED sideVars
    /\ UNCHANGED <<session_id, log, sessions, clock, base, thr>>

\* The database half of add_interaction (conversation_manager.py 428-435) and
\* the return of query_llm.
P_LlmSave(s) ==
    /\ ppc[s] = "q_save"
    /\ \E ok \in BOOLEAN :
         IF ok
         THEN /\ log' = save_interaction(log, session_id, run[s].id)
              /\ run' = [run EXCEPT ![s].resp = IF @ = "phrase" THEN "fallback"
                                                  ELSE "generated",
                                     ![s].nlog = @ + 1]
         ELSE /\ run' = [run EXCEPT ![s].resp = "system_error"]
              /\ UNCHANGED log
    /\ ppc' = [ppc EXCEPT ![s] = "tts"]
    /\ UNCHANGED <<conn, pc, inbox, audio_buffer, is_speaking, processing_lock,
                   ev, runs, utter, fedLate>>
    /\ UNCHANGED vadAll /\ UNCHANGED agentVars
    /\ UNCHANGED <<history, session_id, sessions, clock, calls, base, thr>>

\* agent.tts.tts.generate (lines 367-372): with the handler uninitialized
\* tts.tts is None and the attribute lookup raises; otherwise the engine
\* returns audio, returns no samples, or raises.
generate(t, a) == IF t.initialized THEN a ELSE "raise"

\* Phonetic correction, synthesis and delivery (lines 353-406).
P_Tts(s) ==
    /\ ppc[s] = "tts"
    /\ \E a \in {"audio", "empty", "raise"} :
         IF generate(tts, a) = "empty"
         THEN /\ ppc' = [ppc EXCEPT ![s] = "ret"]
              /\ UNCHANGED <<ev, run>>
         ELSE IF generate(tts, a) = "raise" \/ conn[s] # "open"
         THEN Fail(s)
         ELSE /\ ev' = [ev EXCEPT ![s] = "speaking"]
              /\ ppc' = [ppc EXCEPT ![s] = "ret"]
              /\ UNCHANGED run
    /\ UNCHANGED <<conn, pc, inbox, audio_buffer, is_speaking, processing_lock,
                   runs, utter, fedLate>>
    /\ UNCHANGED vadAll /\ UNCHANGED agentVars /\ UNCHANGED convAll

\* What is remembered of a run once process_speech has returned: whether it
\* ended in the except branch.
AfterRun(r) == [NoRun EXCEPT !.resp = IF r.resp = "error" THEN "error" ELSE "none"]

\* process_speech is over and the loop releases the lock.  With unlock the
\* code of lines 194-198 runs: clear the buffer, unlock, send ready_to_listen.
ReleaseAfter(s, unlock) ==
    /\ ppc' = [ppc EXCEPT ![s] = "none"]
    /\ runs' = [runs EXCEPT ![s] = @ - 1]
    /\ IF ~unlock
       THEN /\ pc' = [pc EXCEPT ![s] = "recv"]
            /\ run' = [run EXCEPT ![s] = AfterRun(run[s])]
            /\ UNCHANGED <<conn, inbox, audio_buffer, is_speaking,
                           processing_lock, ev, fedLate>>
       ELSE IF conn[s] = "open"
       THEN /\ audio_buffer' = [audio_buffer EXCEPT ![s] = << >>]
            /\ run' = [run EXCEPT ![s] = AfterRun(run[s])]
            /\ processing_lock' = [processing_lock EXCEPT ![s] = FALSE]
            /\ ev' = [ev EXCEPT ![s] = "ready_to_listen"]
            /\ pc' = [pc EXCEPT ![s] = "recv"]
            /\ UNCHANGED <<conn, inbox, is_speaking, fedLate>>
       ELSE \* the send raises: lines 211-213
            EndHandler(s)

\* P_Return that leaves the lock held after a run that raised.
P_ReturnKeepsLockOnError(s) ==
    /\ ppc[s] = "ret"
    /\ ReleaseAfter(s, run[s].resp # "error")
    /\ UNCHANGED utter
    /\ UNCHANGED vadAll /\ UNCHANGED agentVars /\ UNCHANGED convAll

\* process_speech returns to the loop (lines 192-198).
P_Return(s) ==
    /\ ppc[s] = "ret"
    /\ ReleaseAfter(s, TRUE)
    /\ UNCHANGED utter
    /\ UNCHANGED vadAll /\ UNCHANGED agentVars /\ UNCHANGED convAll

ClientStep(s) ==
    \/ ClientConnect(s)
    \/ ClientSendFrame(s)
    \/ ClientSendText(s)
    \/ ClientDisconnect(s)

ServerStep(s) ==
    \/ RecvBytes(s)
    \/ RecvText(s)
    \/ RecvDisconnect(s)
    \/ P_Start(s)
    \/ P_Stt(s)
    \/ P_Intent(s)
    \/ P_Llm(s)
    \/ P_LlmSave(s)
    \/ P_Tts(s)
    \/ P_Return(s)

\* ---------------------------------------------------------------------
\* ConversationOrchestrator.handle and ConversationState
\* (conversation_orchestrator.py).  A text is the sequence of the parts that
\* the split of detect_multiple_queries finds in it; a part is a sequence of
\* words; a query is a text.
MaxParts == 3
MaxQueue == 2

Keywords == {"about", "is", "the", "what", "who", "how", "tell", "me"}
Parts == { <<"jetson", "orin">>, <<"who", "is", "sharma">>,
           <<"what", "is", "the">>, <<"pi">> }
WordLen(w) ==
    CASE w \in {"is", "pi", "me"}                   -> 2
      [] w \in {"the", "who", "how", "and"}         -> 3
      [] w \in {"orin", "what", "tell"}             -> 4
      [] w = "about"                                -> 5
      [] OTHER                                      -> 6

RECURSIVE SumLen(_)
SumLen(p) == IF p = << >> THEN 0 ELSE WordLen(Head(p)) + SumLen(Tail(p))
\* len(p.strip()): the words and the single spaces between them.
StripLen(p) == SumLen(p) + Len(p) - 1
LongEnough(p) == StripLen(p) > 5

Texts == UNION { [1..n -> Parts] : n \in 1..MaxParts }
Queries == { <<p>> : p \in { x \in Parts : LongEnough(x) } }
Queues == UNION { [1..n -> Queries] : n \in 0..MaxQueue }
HandleIntents == {"acknowledgment", "greeting", "equipment_query", "other"}
RetrievalIntents == {"equipment_query", "lab_info", "people_query",
                     "capability_check", "project_idea"}
CannedIntents == {"greeting", "out_of_scope", "unclear_input"}

\* detect_multiple_queries (lines 425-439): the parts longer than five
\* characters, each a query of its own, if there are at least two of them;
\* otherwise the one query is the whole text.
detect_multiple_queries(text) ==
    LET qs == SelectSeq(text, LongEnough)
    IN  IF Len(qs) > 1 THEN [i \in 1..Len(qs) |-> <<qs[i]>>] ELSE <<text>>

\* query.split(): the words of the parts, with the conjunction between parts.
RECURSIVE QueryWords(_)
QueryWords(q) ==
    IF q = << >> THEN << >>
    ELSE IF Len(q) = 1 THEN Head(q)
    ELSE Head(q) \o <<"and">> \o QueryWords(Tail(q))
NotKeyword(w) == w \notin Keywords

\* get_topic_preview (lines 441-448): the first three words that are not
\* keywords.
get_topic_preview(query) ==
    LET filtered == SelectSeq(QueryWords(query), NotKeyword)
    IN  SubSeq(filtered, 1, Min(3, Len(filtered)))

\* ConversationState.pop_next (lines 25-29) with the last item instead of
\* the first.
pop_last(q, w) ==
    IF q # << >>
    THEN [item |-> <<q[Len(q)]>>, queue |-> SubSeq(q, 1, Len(q) - 1), waiting |-> FALSE]
    ELSE [item |-> << >>, queue |-> q, waiting |-> w]

\* ConversationState.pop_next (lines 25-29); item is << >> for None.
pop_next(q, w) ==
    IF q # << >>
    THEN [item |-> <<Head(q)>>, queue |-> Tail(q), waiting |-> FALSE]
    ELSE [item |-> << >>, queue |-> q, waiting |-> w]

\* add_to_queue that puts the new items in front.
add_to_front(q, queries) == queries \o q

\* ConversationState.add_to_queue (lines 31-32): list.extend.
add_to_queue(q, queries) == q \o queries

\* What handle returns.  kind is "pending" before the call returns, "None",
\* "canned" or "answer"; an answer is the response of query_with_context for
\* (intent, query), followed by the invitation if invited.
NoRet == [kind |-> "pending", intent |-> "none", query |-> << >>,
          invited |-> FALSE, topic |-> << >>]
Answer(intent, query) == [NoRet EXCEPT !.kind = "answer", !.intent = intent, !.query = query]
NoCall == [st |-> "none", intent |-> "none", text |-> << >>,
           q0 |-> << >>, w0 |-> FALSE, ret |-> NoRet]

\* query_with_context (lines 114-186) either returns after recording the
\* interaction ("ok"), raises before add_interaction ("raise"), or raises in
\* the database half of add_interaction ("saveraise").
QwcOutcomes == {"ok", "raise", "saveraise"}

\* handle (lines 71-112) as a function of its arguments, the conversation
\* state and the outcome of the query_with_context call it may make:
\* the new queue and flag, the value returned (st "done") or the exception
\* (st "raised"), and whether query_with_context ran.
HandleResult(intent, text, q, w, out) ==
    IF intent = "acknowledgment"
    THEN IF q # << >>
         THEN LET p == pop_next(q, w)
              IN  [queue |-> p.queue, waiting |-> p.waiting, qwc |-> TRUE,
                   st |-> IF out = "ok" THEN "done" ELSE "raised",
                   ret |-> IF out = "ok" THEN Answer("equipment_query", p.item[1])
                           ELSE NoRet]
         ELSE [queue |-> q, waiting |-> w, qwc |-> FALSE, st |-> "done",
               ret |-> [NoRet EXCEPT !.kind = "None"]]
    ELSE IF intent \in CannedIntents
    THEN [queue |-> q, waiting |-> w, qwc |-> FALSE, st |-> "done",
          ret |-> [NoRet EXCEPT !.kind = "canned", !.intent = intent]]
    ELSE IF intent \in RetrievalIntents
    THEN LET queries == detect_multiple_queries(text)
         IN  IF out # "ok"
             THEN [queue |-> q, waiting |-> w, qwc |-> TRUE, st |-> "raised",
                   ret |-> NoRet]
             ELSE IF Len(queries) > 1
             THEN [queue |-> add_to_queue(q, Tail(queries)), waiting |-> TRUE,
                   qwc |-> TRUE, st |-> "done",
                   ret |-> [Answer(intent, queries[1]) EXCEPT
                              !.invited = TRUE,
                              !.topic = get_topic_preview(queries[2])]]
             ELSE [queue |-> q, waiting |-> w, qwc |-> TRUE, st |-> "done",
                   ret |-> Answer(intent, text)]
    ELSE [queue |-> q, waiting |-> w, qwc |-> FALSE, st |-> "done",
          ret |-> [NoRet EXCEPT !.kind = "canned", !.intent = "unclear_input"]]

\* One call handle(hcall.intent, hcall.text), with the recording that
\* query_with_context makes through ConversationManager.add_interaction.
H_Handle ==
    /\ hcall.st = "ready"
    /\ \E out \in QwcOutcomes :
         LET r   == HandleResult(hcall.intent, hcall.text, queue, waiting_for_next, out)
             win == r.qwc /\ out # "raise"
         IN  /\ queue' = r.queue
             /\ waiting_for_next' = r.waiting
             /\ hcall' = [hcall EXCEPT !.st = r.st, !.ret = r.ret]
             /\ calls' = IF win THEN calls + 1 ELSE calls
             /\ history' = IF win THEN DequeAppend(history, calls + 1) ELSE history
             /\ log' = IF r.qwc /\ out = "ok"
                       THEN save_interaction(log, session_id, calls + 1) ELSE log
    /\ UNCHANGED <<session_id, sessions, clock, base, thr, tts>>
    /\ UNCHANGED vadAll /\ UNCHANGED sessVars /\ UNCHANGED brainVars
    /\ UNCHANGED sideVars

\* ---------------------------------------------------------------------
\* AxiomBrain as an object of the agent
\* AxiomBrain.__init__ (lines 20-27): the name given, AXIOM_MODEL, or the
\* preferred model; the configured name may be the fallback model itself.
BrainInit ==
    /\ model_name \in {Preferred, Fallback}
    /\ bcall = NoBrainCall
    /\ bcalls = 0
    /\ subs = 0

\* One call of generate_response.
B_Generate ==
    /\ bcalls < MaxBrainCalls
    /\ \E o1, o2 \in BackendOutcomes :
         LET r == generate_response(model_name, o1, o2)
         IN  /\ model_name' = r.model
             /\ bcall' = [o1 |-> o1, o2 |-> IF r.n = 2 THEN o2 ELSE "none",
                          n |-> r.n, res |-> r.res, before |-> model_name]
             /\ subs' = IF r.model # model_name THEN subs + 1 ELSE subs
    /\ bcalls' = bcalls + 1
    /\ UNCHANGED <<queue, waiting_for_next, hcall, tts>>
    /\ UNCHANGED vadAll /\ UNCHANGED convAll /\ UNCHANGED sessVars
    /\ UNCHANGED sideVars

\* ---------------------------------------------------------------------
\* SequentialTTSHandler (sequential_tts_handler.py)

MaxSpeak == 3       \* utterances passed to speak()

\* queue.Queue.get that hands out the newest item.
queue_get_newest(q) == [item |-> q[Len(q)], rest |-> SubSeq(q, 1, Len(q) - 1)]

\* queue.Queue.get on a non-empty queue (line 99): the oldest item.
queue_get(q) == [item |-> Head(q), rest |-> Tail(q)]

\* is_busy (lines 156-158).
is_busy == is_playing \/ speech_queue # << >>

\* The handler after __init__ (lines 26-72): empty queue, flag off, the
\* worker thread play_started and blocked in queue.get.
SpeechInit ==
    /\ speech_queue = << >>
    /\ is_playing = FALSE
    /\ wpc = "get"
    /\ wtext = 0
    /\ spoken = 0
    /\ play_started = << >>
    /\ sounding = {}
    /\ play_ended = {}

\* speak (lines 74-94), called from any thread.  A blocking caller then waits
\* in queue.join, which changes nothing.
T_Speak ==
    /\ spoken < MaxSpeak
    /\ \E text \in {"blank", "text"} :
         IF text = "blank" \/ ~tts.initialized
         THEN UNCHANGED <<speech_queue, spoken>>
         ELSE /\ speech_queue' = Append(speech_queue, spoken + 1)
              /\ spoken' = spoken + 1
    /\ UNCHANGED <<is_playing, wpc, wtext, play_started, sounding, play_ended>>

\* _process_queue, line 99: queue.get returns the next utterance.
W_Get ==
    /\ wpc = "get"
    /\ speech_queue # << >>
    /\ wtext' = queue_get(speech_queue).item
    /\ speech_queue' = queue_get(speech_queue).rest
    /\ wpc' = "got"
    /\ UNCHANGED <<is_playing, spoken, play_started, sounding, play_ended>>

\* Lines 101-104: take play_lock and raise the flag, or skip the utterance.
W_Begin ==
    /\ wpc = "got"
    /\ IF tts.initialized
       THEN /\ is_playing' = TRUE
            /\ wpc' = "gen"
            /\ UNCHANGED play_ended
       ELSE /\ wpc' = "done"
            /\ play_ended' = play_ended \cup {wtext}
            /\ UNCHANGED is_playing
    /\ UNCHANGED <<speech_queue, wtext, spoken, play_started, sounding>>

\* _generate_and_play up to sd.play (lines 114-133): with audio the playback
\* starts; without audio, or after an exception, the function returns.
W_Play ==
    /\ wpc = "gen"
    /\ \E a \in {"audio", "empty", "raise"} :
         IF a = "audio"
         THEN /\ play_started' = Append(play_started, wtext)
              /\ sounding' = sounding \cup {wtext}
              /\ wpc' = "wait"
              /\ UNCHANGED play_ended
         ELSE /\ wpc' = "clear"
              /\ play_ended' = play_ended \cup {wtext}
              /\ UNCHANGED <<play_started, sounding>>
    /\ UNCHANGED <<speech_queue, is_playing, wtext, spoken>>

\* sd.wait returns (line 134): the playback is over, by itself or because
\* stop() has cut it.
W_Wait ==
    /\ wpc = "wait"
    /\ sounding' = sounding \ {wtext}
    /\ play_ended' = play_ended \cup {wtext}
    /\ wpc' = "clear"
    /\ UNCHANGED <<speech_queue, is_playing, wtext, spoken, play_started>>

\* Line 105: lower the flag and leave play_lock.
W_Clear ==
    /\ wpc = "clear"
    /\ is_playing' = FALSE
    /\ wpc' = "done"
    /\ UNCHANGED <<speech_queue, wtext, spoken, play_started, sounding, play_ended>>

\* Lines 110-111: task_done, and back to queue.get.
W_Done ==
    /\ wpc = "done"
    /\ wtext' = 0
    /\ wpc' = "get"
    /\ UNCHANGED <<speech_queue, is_playing, spoken, play_started, sounding, play_ended>>

\* stop (lines 142-154), called from any thread: cut the playback and
\* discard what is queued.
T_Stop ==
    /\ sounding' = {}
    /\ play_ended' = play_ended \cup sounding \cup {speech_queue[i] : i \in DOMAIN speech_queue}
    /\ speech_queue' = << >>
    /\ UNCHANGED <<is_playing, wpc, wtext, spoken, play_started>>

SpeechStep ==
    /\ \/ T_Speak \/ W_Get \/ W_Begin \/ W_Play \/ W_Wait \/ W_Clear \/ W_Done \/ T_Stop
    /\ UNCHANGED <<queue, waiting_for_next, hcall, tts>> /\ UNCHANGED brainVars
    /\ UNCHANGED mapperVars /\ UNCHANGED qcall /\ UNCHANGED stepVars
    /\ UNCHANGED vadAll /\ UNCHANGED convAll /\ UNCHANGED sessVars

\* ---------------------------------------------------------------------
\* Model3DMapper (model_3d_mapper.py)

\* The keys of topic_mappings in their order (lines 25-46).
Topics == <<"quadruped", "depth_camera", "drone", "prototyping">>
TopicSet == {Topics[i] : i \in DOMAIN Topics}

\* A text is known by the topics whose keywords occur in it.
MapperTexts == SUBSET TopicSet

\* detect_topic (lines 50-79): the first topic of the mapping with a keyword
\* in the text.
detect_topic(text) ==
    IF text = {} THEN "none"
    ELSE Topics[CHOOSE i \in DOMAIN Topics :
                   /\ Topics[i] \in text
                   /\ \A j \in 1..(i - 1) : Topics[j] \notin text]

\* get_model_for_topic (lines 81-97): every topic detect_topic can return
\* is a key of topic_mappings, and the model is known by its topic.
get_model_for_topic(topic) == IF topic \in TopicSet THEN topic ELSE "none"

\* process_text that reports every detected topic.
process_text_every_time(cur, text) ==
    LET detected == detect_topic(text)
    IN  IF detected = "none" THEN [topic |-> cur, ret |-> "none"]
        ELSE [topic |-> detected, ret |-> get_model_for_topic(detected)]

\* process_text (lines 99-125) with current_topic = cur: current_topic
\* afterwards and the model returned.
process_text(cur, text) ==
    LET detected == detect_topic(text)
    IN  IF detected = "none" THEN [topic |-> cur, ret |-> "none"]
        ELSE IF detected # cur /\ get_model_for_topic(detected) # "none"
        THEN [topic |-> detected, ret |-> get_model_for_topic(detected)]
        ELSE [topic |-> cur, ret |-> "none"]

NoMapperCall == [text |-> {}, before |-> "none", ret |-> "none", made |-> FALSE]

\* The mapper after __init__ (lines 20-22).
MapperInit ==
    /\ current_topic = "none"
    /\ mcall = NoMapperCall
    /\ last_event = "none"

\* One call of process_text, as the pipeline makes it for each utterance
\* that reaches step 6 (main_agent_web.py 315).
M_ProcessText ==
    /\ \E text \in MapperTexts :
         LET r == process_text(current_topic, text)
         IN  /\ current_topic' = r.topic
             /\ mcall' = [text |-> text, before |-> current_topic, ret |-> r.ret,
                          made |-> TRUE]
             /\ last_event' = IF r.ret # "none" THEN r.ret ELSE last_event
    /\ UNCHANGED <<queue, waiting_for_next, hcall, tts>> /\ UNCHANGED brainVars
    /\ UNCHANGED speechVars /\ UNCHANGED qcall /\ UNCHANGED stepVars
    /\ UNCHANGED vadAll /\ UNCHANGED convAll /\ UNCHANGED sessVars

\* ---------------------------------------------------------------------
\* ConversationOrchestrator.query_with_context (conversation_orchestrator.py)

\* What the trigger tests of lines 124-139 look for in the lowered text: one
\* of the identity phrases, "juit", one of the words what/full/name/mean/
\* stand, "vice chancellor" (with space or hyphen), "vc".  A text is known
\* by the ones it contains.
TextMarks == {"identity", "juit", "askword", "vice_chancellor", "vc"}
QueryTexts == SUBSET TextMarks

\* The three trigger tests in their order (lines 124, 130, 136).
hardcoded_trigger(text) ==
    IF "identity" \in text THEN "identity"
    ELSE IF "juit" \in text /\ "askword" \in text THEN "juit"
    ELSE IF "vice_chancellor" \in text \/ ("vc" \in text /\ "juit" \in text)
    THEN "vice_chancellor"
    ELSE "none"

MaxQueries == 2     \* query_with_context calls that record an Interaction

\* One intent for each retrieval branch of lines 142-158, out of the intents
\* handle passes on (lines 88-110).
QueryIntents == {"project_idea", "people_query", "equipment_query"}

\* The retrieval the intent selects (lines 142-158).
retrieval_for(intent) ==
    IF intent = "project_idea" THEN "projects"
    ELSE IF intent \in {"people_query", "lab_info"} THEN "authorities"
    ELSE "equipment"

Recorded(conf, hard) == [confidence |-> conf, hardcoded |-> hard]

\* query_with_context that consults the backend before the trigger tests.
query_with_context_generates_first(intent, text, model, rout, o1, o2) ==
    LET g == generate_response(model, o1, o2)
    IN  IF rout = "raise"
        THEN [trigger |-> hardcoded_trigger(text), retrieval |-> retrieval_for(intent),
              generations |-> 0, model |-> model, rec |-> << >>, ret |-> "raise"]
        ELSE IF hardcoded_trigger(text) # "none"
        THEN [trigger |-> hardcoded_trigger(text), retrieval |-> retrieval_for(intent),
              generations |-> 1, model |-> g.model,
              rec |-> <<Recorded("1.0", TRUE)>>, ret |-> hardcoded_trigger(text)]
        ELSE [trigger |-> "none", retrieval |-> retrieval_for(intent),
              generations |-> 1, model |-> g.model,
              rec |-> <<Recorded("0.9", FALSE)>>, ret |-> g.res]

\* query_with_context (lines 114-186) up to its add_interaction call, for a
\* retrieval that returns or raises (rout) and a backend that behaves as
\* o1, o2: the trigger that fired, the retrieval made, the number of
\* generate_response calls, the model name afterwards, the Interaction
\* handed to add_interaction, and the value to return.
query_with_context(intent, text, model, rout, o1, o2) ==
    LET trigger == hardcoded_trigger(text)
        g       == generate_response(model, o1, o2)
    IN  IF trigger # "none"
        THEN [trigger |-> trigger, retrieval |-> "none", generations |-> 0,
              model |-> model, rec |-> <<Recorded("1.0", TRUE)>>, ret |-> trigger]
        ELSE IF rout = "raise"
        THEN [trigger |-> "none", retrieval |-> retrieval_for(intent),
              generations |-> 0, model |-> model, rec |-> << >>, ret |-> "raise"]
        ELSE [trigger |-> "none", retrieval |-> retrieval_for(intent),
              generations |-> 1, model |-> g.model,
              rec |-> <<Recorded("0.9", FALSE)>>, ret |-> g.res]

NoQuery == [st |-> "none", intent |-> "none", text |-> {}, trigger |-> "none",
            retrieval |-> "none", generations |-> 0, rec |-> << >>,
            ret |-> "none", nwin |-> 0, nlog |-> 0]

\* One call of query_with_context with the recording add_interaction makes
\* (conversation_manager.py 412-435): the window append, then the INSERT,
\* which may raise.
Q_Query ==
    /\ calls < MaxQueries
    /\ \E intent \in QueryIntents, text \in QueryTexts, sout \in {"ok", "raise"} :
       \E rout \in IF hardcoded_trigger(text) = "none" THEN {"ok", "raise"} ELSE {"ok"} :
       \E o1 \in IF hardcoded_trigger(text) = "none" /\ rout = "ok"
                  THEN BackendOutcomes ELSE {"none"} :
       \E o2 \in IF o1 = "notfound" /\ model_name # Fallback
                  THEN BackendOutcomes ELSE {"none"} :
         LET r   == query_with_context(intent, text, model_name, rout, o1, o2)
             win == r.rec # << >>
             row == win /\ sout = "ok"
         IN  /\ model_name' = r.model
             /\ calls' = IF win THEN calls + 1 ELSE calls
             /\ history' = IF win THEN DequeAppend(history, calls + 1) ELSE history
             /\ log' = IF row THEN save_interaction(log, session_id, calls + 1) ELSE log
             /\ qcall' = [st |-> IF r.ret = "raise" \/ (win /\ ~row) THEN "raised"
                                 ELSE "done",
                          intent |-> intent, text |-> text, trigger |-> r.trigger,
                          retrieval |-> r.retrieval, generations |-> r.generations,
                          rec |-> r.rec,
                          ret |-> IF win /\ ~row THEN "raise" ELSE r.ret,
                          nwin |-> IF win THEN 1 ELSE 0,
                          nlog |-> IF row THEN 1 ELSE 0]
    /\ UNCHANGED <<session_id, sessions, clock, base, thr>>
    /\ UNCHANGED <<queue, waiting_for_next, hcall, tts, bcall, bcalls, subs>>
    /\ UNCHANGED speechVars /\ UNCHANGED mapperVars /\ UNCHANGED stepVars
    /\ UNCHANGED vadAll /\ UNCHANGED sessVars

\* ---------------------------------------------------------------------
\* process_speech statement by statement (main_agent_web.py 215-413)

MaxRuns == 2        \* process_speech runs followed step by step

\* The steps in the order of the source text.
Steps == <<"transcribe", "hallucination_filter", "intent", "correct_stt",
           "normalize", "keyword", "topic", "template_decision",
           "template", "generate", "correct_response", "synthesis">>
StepRank(x) == CHOOSE i \in DOMAIN Steps : Steps[i] = x

NoInfo == [use_template |-> FALSE, response |-> "none", producers |-> << >>,
           raised |-> FALSE]

\* Lines 337-351 executed without the test of response_text.
after_template_always_generates(response) == "generate"

\* Lines 337-351: generation is asked only if there is no response text yet.
after_template(response) ==
    IF response = "none" THEN "generate" ELSE "correct_response"

StepInit ==
    /\ pstep = "none"
    /\ ptrace = << >>
    /\ pinfo = NoInfo
    /\ pruns = 0

\* The step x has run to its end and the coroutine goes on at nxt.
Advance(x, nxt) ==
    /\ pstep = x
    /\ ptrace' = Append(ptrace, x)
    /\ pstep' = nxt

\* The step x raises: the except branch of lines 408-413, then the return.
Raise(x) ==
    /\ pstep = x
    /\ ptrace' = Append(ptrace, x)
    /\ pstep' = "ret"
    /\ pinfo' = [pinfo EXCEPT !.raised = TRUE]

\* process_speech is called (line 193) and reaches the transcription
\* (lines 226-240).
S_Begin ==
    /\ pstep = "none" /\ pruns < MaxRuns
    /\ pruns' = pruns + 1
    /\ ptrace' = << >>
    /\ pinfo' = NoInfo
    /\ pstep' = "transcribe"

\* STEP 1 (lines 246-263): transcription, with the exits on an empty
\* transcript and on a single filler word.
S_Transcribe ==
    /\ \E t \in {"ok", "empty", "filler"} :
         Advance("transcribe", IF t = "ok" THEN "hallucination_filter" ELSE "ret")
    /\ UNCHANGED <<pinfo, pruns>>

\* STEP 2 (lines 267-270).
S_Hallucination ==
    /\ \E h \in BOOLEAN :
         Advance("hallucination_filter", IF h THEN "ret" ELSE "intent")
    /\ UNCHANGED <<pinfo, pruns>>

\* STEP 3 (line 275).
S_Intent == Advance("intent", "correct_stt") /\ UNCHANGED <<pinfo, pruns>>

\* STEP 4 (lines 282-285).
S_CorrectStt == Advance("correct_stt", "normalize") /\ UNCHANGED <<pinfo, pruns>>

\* STEP 5 (line 290).
S_Normalize == Advance("normalize", "keyword") /\ UNCHANGED <<pinfo, pruns>>

\* Keyword detection and the card event (lines 298-310).
S_Keyword == Advance("keyword", "topic") /\ UNCHANGED <<pinfo, pruns>>

\* STEP 6 (lines 315-324).
S_Topic == Advance("topic", "template_decision") /\ UNCHANGED <<pinfo, pruns>>

\* STEP 6.5, the decision (lines 330-335).
S_TemplateDecision ==
    /\ \E u \in BOOLEAN :
         /\ Advance("template_decision", IF u THEN "template" ELSE "generate")
         /\ pinfo' = [pinfo EXCEPT !.use_template = u]
    /\ UNCHANGED pruns

\* STEP 6.5, the template text (lines 337-345): it may be None.
S_Template ==
    /\ \E r \in {"text", "none"} :
         /\ Advance("template", after_template(r))
         /\ pinfo' = [pinfo EXCEPT !.response = r,
                                   !.producers = IF r = "text" THEN Append(@, "template")
                                                 ELSE @]
    /\ UNCHANGED pruns

\* STEP 7 (lines 349-351): query_llm returns a text in every case
\* (lines 97-112).
S_Generate ==
    /\ Advance("generate", "correct_response")
    /\ pinfo' = [pinfo EXCEPT !.response = "text",
                              !.producers = Append(@, "generate")]
    /\ UNCHANGED pruns

\* STEP 7.5 (lines 358-361).
S_CorrectResponse ==
    Advance("correct_response", "synthesis") /\ UNCHANGED <<pinfo, pruns>>

\* STEP 8 (lines 367-401).
S_Synthesis == Advance("synthesis", "ret") /\ UNCHANGED <<pinfo, pruns>>

\* Any step raises, except the generation, which catches its own failures
\* (lines 97-112).
S_Raise ==
    /\ \E x \in {Steps[i] : i \in DOMAIN Steps} \ {"generate"} : Raise(x)
    /\ UNCHANGED pruns

\* process_speech returns.
S_Return ==
    /\ pstep = "ret"
    /\ pstep' = "none"
    /\ UNCHANGED <<ptrace, pinfo, pruns>>

SpeechRunStep ==
    /\ \/ S_Begin \/ S_Transcribe \/ S_Hallucination \/ S_Intent \/ S_CorrectStt
       \/ S_Normalize \/ S_Keyword \/ S_Topic \/ S_TemplateDecision \/ S_Template
       \/ S_Generate \/ S_CorrectResponse \/ S_Synthesis \/ S_Raise \/ S_Return
    /\ UNCHANGED <<queue, waiting_for_next, hcall, tts>> /\ UNCHANGED brainVars
    /\ UNCHANGED speechVars /\ UNCHANGED mapperVars /\ UNCHANGED qcall
    /\ UNCHANGED vadAll /\ UNCHANGED convAll /\ UNCHANGED sessVars

\* The orchestrator and the synthesis handler after AxiomWebAgent.__init__.
AgentInit ==
    /\ queue = << >>
    /\ waiting_for_next = FALSE
    /\ hcall = NoCall
    /\ tts \in [initialized : BOOLEAN]
    /\ BrainInit
    /\ SpeechInit
    /\ MapperInit
    /\ qcall = NoQuery
    /\ StepInit

\* A handle call about to be made, in any conversation state that earlier
\* calls can have left: the flag is set only together with a queued item.
OrchInit ==
    /\ VadInit /\ vad.initialized /\ ConvInit /\ SessInit
    /\ tts = [initialized |-> TRUE]
    /\ BrainInit /\ model_name = Preferred
    /\ SpeechInit /\ MapperInit /\ qcall = NoQuery /\ StepInit
    /\ queue \in Queues
    /\ waiting_for_next \in BOOLEAN
    /\ waiting_for_next => queue # << >>
    /\ \E i \in HandleIntents, t \in Texts :
         hcall = [NoCall EXCEPT !.st = "ready", !.intent = i, !.text = t,
                                !.q0 = queue, !.w0 = waiting_for_next]

(***************************************************************************)
(* Specifications                                                          *)
(***************************************************************************)
\* The agent after construction with the synthesis model installed and
\* AXIOM_MODEL naming the lab model (axiom_brain.py 22-23).  The engine and
\* the backend may still fail on any call, so every behaviour of the agent
\* without the synthesis model, or with another model name, is also a
\* behaviour from here, up to the values of tts and model_name.
Init == VadInit /\ ConvInit /\ SessInit /\ AgentInit /\ tts.initialized
           /\ model_name = Fallback

\* The agent constructed with the default model name, which the first
\* "not found" answer of the backend replaces (axiom_brain.py 76-81).
BackendInit == VadInit /\ ConvInit /\ SessInit /\ AgentInit /\ tts.initialized
                  /\ model_name = Preferred

\* The agent after construction without the synthesis model
\* (sequential_tts_handler.py 32-42).
DegradedInit == VadInit /\ ConvInit /\ SessInit /\ AgentInit /\ ~tts.initialized
                   /\ model_name = Fallback

\* The server with one client, which connects, streams audio, sends control
\* messages, disconnects and reconnects.
Next == ClientStep("s1") \/ ServerStep("s1")
Spec == Init /\ [][Next]_vars

\* The server with two clients that connect and stream audio at the same time.
MultiNext ==
    \E s \in Sessions :
        \/ ClientConnect(s)
        \/ ClientSendFrame(s)
        \/ RecvBytes(s)
        \/ P_Start(s)
        \/ P_Stt(s)
        \/ P_Intent(s)
        \/ P_Llm(s)
        \/ P_LlmSave(s)
        \/ P_Tts(s)
        \/ P_Return(s)
MultiSpec == Init /\ [][MultiNext]_vars

\* The event loop runs every coroutine that can make a step, and the calls a
\* handler waits for return.
FairSpec == Spec /\ WF_vars(ServerStep("s1"))

\* In addition a connected client keeps streaming audio frames.
StreamSpec == FairSpec /\ SF_vars(ClientSendFrame("s1"))

\* The VAD alone, fed arbitrary frame sequences.
VadNext == VadFeed \/ VadReset
VadSpec == Init /\ [][VadNext]_vars

\* The conversation manager alone, called from two threads.
ConvNext ==
    \/ \E t \in Threads : CM_AddWindow(t)
    \/ \E t \in Threads : CM_AddSave(t)
    \/ CM_Clear
    \/ CM_EndSession
    \/ CM_Export
    \/ Tick
ConvInit0 == Init /\ vad.initialized
ConvSpec == ConvInit0 /\ [][ConvNext]_vars

\* One client of an agent whose synthesis handler is not initialized.
DegradedSpec == DegradedInit /\ [][Next]_vars

\* One client of an agent whose AxiomBrain starts with the default model name.
BackendSpec == BackendInit /\ [][Next]_vars

\* generate_response called again and again on the one AxiomBrain, after any
\* outcome of the agent's construction.
BrainInit0 == VadInit /\ ConvInit /\ SessInit /\ AgentInit
BrainNext == B_Generate
BrainSpec == BrainInit0 /\ [][BrainNext]_vars

\* The synthesis handler alone: callers of speak and stop, and the worker.
SpeechNext == SpeechStep
SpeechSpec == BrainInit0 /\ [][SpeechNext]_vars

\* The mapper alone, given one text after another.
MapperNext == M_ProcessText
MapperSpec == BrainInit0 /\ [][MapperNext]_vars

\* process_speech followed statement by statement, one run after another.
StepNext == SpeechRunStep
StepSpec == BrainInit0 /\ [][StepNext]_vars

\* query_with_context called again and again.
QueryNext == Q_Query
QuerySpec == BackendInit /\ [][QueryNext]_vars

\* handle called once from each conversation state.
OrchNext == H_Handle
OrchSpec == OrchInit /\ [][OrchNext]_vars

(***************************************************************************)
(* Claims                                                                  *)
(***************************************************************************)
\* C4: the returned isSpeech changes from false to true only on a frame that
\* completes a run of at least 3 consecutive frames with probability at or
\* above the threshold.
C4_OnsetOnlyAfterThreeFrames ==
    (vprev = "F" /\ vret = "T") => hiRun >= 3

\* C5: the returned isSpeech changes from true to false only on a frame that
\* completes a run of at least 10 consecutive frames with probability below
\* the threshold.
C5_OffsetOnlyAfterTenFrames ==
    (vprev = "T" /\ vret = "F") => loRun >= 10

\* The last min(n, max_history) of the interactions 1..n, oldest first.
LastOf(n) ==
    [i \in 1..Min(n, max_history) |-> n - Min(n, max_history) + i]

AllIdle == \A t \in Threads : thr[t].pc = "idle"

\* C8: after n add_interaction calls on a manager with capacity 5 (and no
\* clear), the window holds at most 5 entries, exactly the last min(n,5)
\* interactions in insertion order, and all n interactions are in the log.
C8_WindowLastFiveLogHasAll ==
    (base = 0 /\ AllIdle) =>
        /\ Len(history) <= 5
        /\ history = LastOf(calls)
        /\ {log[i].id : i \in DOMAIN log} = 1..calls
        /\ Len(log) = calls

IsPrefix(a, b) == Len(a) <= Len(b) /\ SubSeq(b, 1, Len(a)) = a

LogPos(x) == CHOOSE i \in DOMAIN log : log[i].id = x
InLog(x)  == \E i \in DOMAIN log : log[i].id = x

\* C9: interactions are appended to the log in the order add_interaction is
\* called, no operation updates, deletes or reorders an existing log record,
\* and the window lists its interactions in the same relative order as the log.
C9_LogAppendOnlyInCallOrder ==
    /\ [](\A i, j \in DOMAIN log : i < j => log[i].id < log[j].id)
    /\ [](\A i, j \in DOMAIN history :
            (i < j /\ InLog(history[i]) /\ InLog(history[j]))
                => LogPos(history[i]) < LogPos(history[j]))
    /\ [][IsPrefix(log, log')]_vars

\* C1: within one session at most one execution of process_speech is in
\* progress at any time; while one runs the loop waits for it, holding the
\* lock, and so cannot start another.
C1_OnePipelinePerSession ==
    \A s \in Sessions :
        /\ runs[s] <= 1
        /\ ppc[s] # "none" => (pc[s] = "await" /\ processing_lock[s])

\* A second utterance of one session is in process_speech after its first.
C1_Witness == utter = 2 /\ ppc["s1"] = "stt" /\ pc["s2"] = "off"

\* C2: a frame that arrived while the processing lock was held is never
\* processed: it is not fed to the VAD (the only step that can append it to
\* the utterance buffer), neither at once nor after the lock is released.
C2_LockedFramesDiscarded ==
    \A s \in Sessions : ~fedLate[s]

\* C3: every acquisition of the processing lock is eventually followed by its
\* release and a ready_to_listen event, unless the connection does not stay
\* open.
C3_LockEventuallyReleased ==
    \A s \in Sessions :
        processing_lock[s] ~>
            ((~processing_lock[s] /\ ev[s] = "ready_to_listen") \/ conn[s] # "open")

\* The lock was released and ready_to_listen sent after a run that raised.
C3_Witness ==
    \E s \in Sessions :
        /\ conn[s] = "open" /\ ~processing_lock[s]
        /\ ev[s] = "ready_to_listen" /\ run[s].resp = "error"

\* C6: with the VAD uninitialized, a session that keeps receiving audio
\* frames eventually emits speech_end (and runs process_speech).
C6_UninitializedVadStillEndsSpeech ==
    \A s \in Sessions :
        (~vad.initialized /\ conn[s] = "open") ~>
            (ev[s] = "speech_end" \/ conn[s] # "open")

\* A step in which session s connects, processes a frame or records an
\* interaction.
ActsOnShared(s) == ClientConnect(s) \/ RecvBytes(s) \/ P_Llm(s)

\* C7: no action of one session changes the VAD state, the hysteresis
\* counters or the conversation window observed by another active session.
C7_SessionStateNotShared ==
    [][\A s \in Sessions :
          (ActsOnShared(s) /\ \E t \in Sessions \ {s} : pc[t] # "off")
              => (vad' = vad /\ history' = history)]_vars

\* C10: a run of process_speech that produced a response, by template or by
\* generation, has recorded exactly one Interaction in the window and one in
\* the log.
C10_ResponseRecordedOnce ==
    \A s \in Sessions :
        (ppc[s] = "ret" /\ run[s].resp \in {"template", "generated"})
            => (run[s].nwin = 1 /\ run[s].nlog = 1)

\* C11: once the handler of a session has ended and no session is open, the
\* conversation state holds nothing of the ended session: the recent window
\* and the sub-query queue are empty.
C11_EndedSessionLeavesNothing ==
    (\A s \in Sessions : pc[s] = "off") => (history = << >> /\ queue = << >>)

\* C12: every clear(), alone or as the last step of end_session(), empties
\* the window and leaves a session id different from the one before it.
C12_ClearRenewsSessionId ==
    [][(CM_Clear \/ CM_EndSession)
          => (history' = << >> /\ session_id' # session_id)]_vars

\* C13: a handle call with intent acknowledgment, when the queue is not
\* empty, removes exactly the head of the queue and processes that text as an
\* equipment_query; when the queue is empty it returns None and changes
\* nothing of the conversation state.
C13_AcknowledgmentPopsHead ==
    (hcall.intent = "acknowledgment" /\ hcall.st \in {"done", "raised"}) =>
        IF hcall.q0 # << >>
        THEN /\ queue = Tail(hcall.q0)
             /\ ~waiting_for_next
             /\ hcall.st = "done" =>
                   /\ hcall.ret = Answer("equipment_query", Head(hcall.q0))
                   /\ calls = 1 /\ Len(history) = 1
        ELSE /\ hcall.st = "done" /\ hcall.ret.kind = "None"
             /\ queue = hcall.q0 /\ waiting_for_next = hcall.w0
             /\ calls = 0 /\ history = << >> /\ log = << >>

\* An acknowledgment answered from a queue of two different sub-queries.
C13_Witness ==
    /\ hcall.intent = "acknowledgment" /\ hcall.st = "done"
    /\ Len(hcall.q0) = 2 /\ hcall.q0[1] # hcall.q0[2]
    /\ hcall.ret.kind = "answer" /\ hcall.ret.query = hcall.q0[1]
    /\ queue = <<hcall.q0[2]>>

\* C15: a handle call with a retrieval intent that returns, on a text that
\* splits into k >= 2 sub-queries, has processed only the first one, has
\* appended the other k-1 to the tail of the queue in their order, has set
\* waiting_for_next, and returns the first answer followed by an invitation
\* whose topic is taken from the second sub-query; on a text that is one
\* query it leaves the queue and waiting_for_next as they were.
C15_MultiQueryQueuesTheRest ==
    (hcall.intent \in RetrievalIntents /\ hcall.st = "done") =>
        LET qs == detect_multiple_queries(hcall.text)
            n0 == Len(hcall.q0)
        IN  /\ calls = 1 /\ Len(history) = 1
            /\ IF Len(qs) >= 2
               THEN /\ Len(queue) = n0 + Len(qs) - 1
                    /\ SubSeq(queue, 1, n0) = hcall.q0
                    /\ \A i \in 2..Len(qs) : queue[n0 + i - 1] = qs[i]
                    /\ waiting_for_next
                    /\ hcall.ret.kind = "answer" /\ hcall.ret.intent = hcall.intent
                    /\ hcall.ret.query = qs[1]
                    /\ hcall.ret.invited
                    /\ hcall.ret.topic = get_topic_preview(qs[2])
                    /\ (\E j \in 1..Len(qs[2][1]) : qs[2][1][j] \notin Keywords)
                          => hcall.ret.topic # << >>
               ELSE /\ queue = hcall.q0 /\ waiting_for_next = hcall.w0
                    /\ hcall.ret = Answer(hcall.intent, hcall.text)

\* A text of three sub-queries handled while a different sub-query was
\* already queued.
C15_Witness ==
    /\ hcall.intent = "equipment_query" /\ hcall.st = "done"
    /\ Len(detect_multiple_queries(hcall.text)) = 3
    /\ Len(hcall.q0) = 1
    /\ hcall.q0[1] # detect_multiple_queries(hcall.text)[2]
    /\ Len(queue) = 3 /\ hcall.ret.invited
    /\ hcall.ret.topic = <<"sharma">>

\* C14: in the session pipeline an utterance classified as acknowledgment
\* while no sub-query is queued is silent: the run has no response text,
\* never reaches generation or synthesis, and no speaking event is sent.
C14_GhostAcknowledgmentSilent ==
    \A s \in Sessions :
        (run[s].ack /\ queue = << >>) =>
            /\ run[s].resp \notin {"template", "generated", "system_error"}
            /\ ppc[s] \notin {"llm", "q_save", "tts"}
            /\ ev[s] # "speaking"

\* C16: a run whose transcript is empty, a single filler word or judged a
\* hallucination goes straight to its return: it never reaches intent
\* classification, generation or synthesis, records no Interaction, sends no
\* speaking event, and has sent the idle state if the client is still there.
C16_RejectedTranscriptEndsRun ==
    \A s \in Sessions :
        run[s].stt \in {"empty", "filler", "hallucination"} =>
            /\ ppc[s] = "ret"
            /\ ~run[s].ack
            /\ run[s].nwin = 0 /\ run[s].nlog = 0
            /\ run[s].resp \in {"skipped", "error"}
            /\ run[s].resp = "skipped" => ev[s] = "idle"
            /\ ev[s] # "speaking"

\* A run ended by a filler word, with the idle state sent.
C16_Witness ==
    /\ run["s1"].stt = "filler" /\ ppc["s1"] = "ret"
    /\ run["s1"].resp = "skipped" /\ ev["s1"] = "idle"
    /\ processing_lock["s1"]

C18_PipelineErrorIsContained ==
    /\ [](\A s \in Sessions :
            (ppc[s] = "ret" /\ run[s].resp = "error" /\ conn[s] = "open") =>
                (ev[s] = "idle_error" /\ pc[s] = "await" /\ processing_lock[s]))
    /\ [][\A s \in Sessions :
            (ppc[s] = "ret" /\ run[s].resp = "error" /\ conn[s] = "open"
               /\ ppc'[s] = "none") =>
                (pc'[s] = "recv" /\ ~processing_lock'[s]
                   /\ conn'[s] = "open" /\ ev'[s] = "ready_to_listen")]_vars

\* The except branch has just reported an error to a connected client.
C18_Witness ==
    /\ ppc["s1"] = "ret" /\ run["s1"].resp = "error" /\ conn["s1"] = "open"
    /\ ev["s1"] = "idle_error" /\ processing_lock["s1"]

\* C19: the control loop of a session is left only when the client has
\* disconnected: no message the client sends and no failure of a run makes
\* the handler end while the client is still connected.
C19_LoopEndsOnlyOnDisconnect ==
    [][\A s \in Sessions :
          (pc[s] # "off" /\ pc'[s] = "off") => conn[s] = "gone"]_vars

\* C20: with the synthesis handler uninitialized, a run that reaches synthesis
\* while the client is connected completes as a normal run: the step does
\* not end in the except branch and sends no idle state carrying an error.
C20_NoTtsRunIsNormal ==
    [][\A s \in Sessions :
          (~tts.initialized /\ ppc[s] = "tts" /\ conn[s] = "open") =>
              (run'[s].resp # "error" /\ ev'[s] # "idle_error")]_vars

\* C24: for every count n >= 0, get_recent_interactions(n) and
\* get_context_string(n) yield exactly the last min(n, window size)
\* interactions of the window in insertion order, numbered from 1, and
\* get_context_string yields the empty string for an empty window.
C24_RecentIsLastMinNOfWindow ==
    \A n \in 0..MaxCount :
        LET k      == Min(n, Len(history))
            expect == SubSeq(history, Len(history) - k + 1, Len(history))
            ctx    == get_context_string(history, n)
        IN  /\ get_recent_interactions(history, n) = expect
            /\ history = << >> => (~ctx.header /\ ctx.lines = << >>)
            /\ history # << >> =>
                  /\ Len(ctx.lines) = k
                  /\ \A i \in 1..Len(ctx.lines) :
                        ctx.lines[i] = [n |-> i, id |-> expect[i]]

\* C28: add_interaction is all-or-nothing across the two stores: once no call
\* is in progress, every interaction in the window has a record in the log.
C28_WindowEntriesAreLogged ==
    AllIdle => \A i \in DOMAIN history : InLog(history[i])

C23_OneSubstitutionOneRetry ==
    /\ [](subs <= 1)
    /\ [](bcall.n <= 2)
    /\ [](bcall.n = 2 => (bcall.o1 = "notfound" /\ bcall.before # Fallback))
    /\ [](bcall.o1 \in {"error", "badshape", "ok"} => bcall.n = 1)
    /\ [][model_name' # model_name => model_name' = Fallback]_vars

\* A call that was retried on the fallback model, followed by a later call
\* that reported the model as not found again and was not retried.
C23_Witness ==
    /\ subs = 1 /\ model_name = Fallback /\ bcalls >= 2
    /\ bcall.o1 = "notfound" /\ bcall.n = 1 /\ bcall.before = Fallback

\* C21: a failure of the generation backend never reaches the caller:
\* whatever the backend does, generate_response returns the text or the
\* fixed phrase; and a run answered with the fixed phrase goes on through
\* recording and synthesis to its return, with no idle state carrying an
\* error sent for it.
C21_BackendFailureNotPropagated ==
    /\ [](\A o1, o2 \in BackendOutcomes :
            LET r == generate_response(model_name, o1, o2)
            IN  /\ r.res \in {"text", "phrase"}
                /\ (r.n = 1 /\ o1 # "ok") => r.res = "phrase"
                /\ (r.n = 2 /\ o2 # "ok") => r.res = "phrase")
    /\ [](\A s \in Sessions :
            run[s].resp \in {"phrase", "fallback"} =>
                /\ ppc[s] \in {"q_save", "tts", "ret"}
                /\ run[s].nwin = 1
                /\ ev[s] # "idle_error")
    /\ [][\A s \in Sessions :
            (ppc[s] = "ret" /\ run[s].resp = "fallback" /\ conn[s] = "open"
               /\ ppc'[s] = "none") =>
                (ev'[s] = "ready_to_listen" /\ ~processing_lock'[s])]_vars

\* The fixed phrase was recorded, synthesised and sent as the spoken answer.
C21_Witness ==
    /\ run["s1"].resp = "fallback" /\ ppc["s1"] = "ret"
    /\ ev["s1"] = "speaking" /\ run["s1"].nlog = 1

\* C22: the handler plays the queued utterances one at a time and in the
\* order speak() enqueued them: at most one utterance is playing, only the
\* one started last can be playing, every utterance started before it has
\* ended, and the utterances are started in increasing enqueue order.
C22_PlaybackSequentialInOrder ==
    /\ Cardinality(sounding) <= 1
    /\ \A i \in DOMAIN play_started :
         /\ i < Len(play_started) =>
              /\ play_started[i] \in play_ended
              /\ play_started[i] \notin sounding
              /\ play_started[i] < play_started[i + 1]
    /\ \A u \in sounding : u = play_started[Len(play_started)] /\ u = wtext

\* The second of two queued utterances is playing after the first has ended.
C22_Witness ==
    /\ play_started = <<1, 2>> /\ sounding = {2} /\ 1 \in play_ended
    /\ speech_queue = <<3>>

\* C30: from the moment speak() has enqueued an utterance until the end of
\* its playback, is_busy returns true.
C30_BusyUntilPlayed ==
    (\E u \in 1..spoken : u \notin play_ended) => is_busy

\* C26: process_text returns a load event only when the detected topic
\* differs from current_topic, and then current_topic becomes that topic;
\* with no topic or the same topic it returns nothing and leaves
\* current_topic as it was; so an event never names the topic of the event
\* before it.
C26_LoadEventOnlyOnTopicChange ==
    /\ [](mcall.made =>
            LET detected == detect_topic(mcall.text)
            IN  /\ mcall.ret # "none" =>
                     /\ detected # mcall.before
                     /\ mcall.ret = detected
                     /\ current_topic = detected
                /\ (detected = "none" \/ detected = mcall.before) =>
                     /\ mcall.ret = "none"
                     /\ current_topic = mcall.before)
    /\ [][mcall'.ret # "none" => mcall'.ret # last_event]_vars

\* A text about a second topic has produced a load event after the first.
C26_Witness ==
    /\ mcall.made /\ mcall.before = "drone" /\ mcall.ret = "quadruped"
    /\ mcall.text = {"quadruped", "drone"} /\ current_topic = "quadruped"

\* C27: a query_with_context call whose text holds a hardcoded trigger makes
\* no retrieval and no generation call, and when it returns it has recorded
\* exactly one Interaction, with confidence 1.0 and metadata hardcoded=true,
\* and returns the fixed answer of that trigger; a call without a trigger
\* that returns has made the generation call and recorded exactly one
\* Interaction, with confidence 0.9.  No call records more than one
\* Interaction, and none records one without a trigger before generating.
C27_HardcodedBypassesGeneration ==
    /\ [](qcall.st # "none" =>
            /\ Len(qcall.rec) <= 1 /\ qcall.nwin = Len(qcall.rec)
            /\ qcall.nlog <= qcall.nwin
            /\ IF hardcoded_trigger(qcall.text) # "none"
               THEN /\ qcall.retrieval = "none" /\ qcall.generations = 0
                    /\ qcall.rec = <<Recorded("1.0", TRUE)>>
                    /\ qcall.st = "done" =>
                         /\ qcall.ret = hardcoded_trigger(qcall.text)
                         /\ qcall.nwin = 1 /\ qcall.nlog = 1
               ELSE /\ qcall.rec # << >> => qcall.generations = 1
                    /\ qcall.st = "done" =>
                         /\ qcall.generations = 1
                         /\ qcall.retrieval = retrieval_for(qcall.intent)
                         /\ qcall.rec = <<Recorded("0.9", FALSE)>>
                         /\ qcall.ret \in {"text", "phrase"}
                         /\ qcall.nwin = 1 /\ qcall.nlog = 1)
    /\ [][qcall' # qcall =>
            /\ Len(history') <= Len(history) + 1
            /\ Len(log') = Len(log) + qcall'.nlog
            /\ calls' = calls + qcall'.nwin]_vars

\* A "what does JUIT stand for" query answered from the hardcoded facts after
\* an earlier query that went to the backend.
C27_Witness ==
    /\ qcall.st = "done" /\ qcall.trigger = "juit" /\ qcall.ret = "juit"
    /\ qcall.text = {"juit", "askword"}
    /\ calls = 2 /\ Len(log) = 2

====
